---------------------------- MODULE Spec2Model ----------------------------
(***************************************************************************)
(* The game-state simulation of the Flappy Bird game: physics, obstacle    *)
(* generation / movement / pruning, collision detection, scoring and the   *)
(* ready -> playing -> gameOver state machine of updateGameState.          *)
(*                                                                         *)
(* Numbers.  The source computes with JavaScript numbers.  The model uses  *)
(* exact fixed-point integers: lengths are in 1/10000 pixel, times in      *)
(* milliseconds, velocities in 1/10000 pixel per millisecond, so that      *)
(* gravity (0.0008 px/ms^2), jumpVelocity (-0.35 px/ms) and obstacleSpeed  *)
(* (0.3 px/ms) are integers and every product the code forms is exact.     *)
(***************************************************************************)
EXTENDS Integers, Sequences, FiniteSets

\* A length given in pixels, in model units (1/10000 pixel).
Px(n) == n * 10000

(***************************************************************************)
(* GAME_CONFIG (constants.ts).  window.innerWidth x window.innerHeight is  *)
(* taken as 800 x 600, the playfield the repository's tests assume.        *)
(***************************************************************************)
width == Px(800)
height == Px(600)
gravity == 8
jumpVelocity == -3500
birdStartX == (width * 2) \div 10
birdStartY == (height * 5) \div 10
obstacleWidth == Px(80)
obstacleGap == Px(180)
obstacleSpeed == 3000
obstacleInterval == 2000
minGapY == (height * 25) \div 100
maxGapY == (height * 75) \div 100
birdRadius == Px(18)
topBoundary == 0
bottomBoundary == height

(***************************************************************************)
(* Bounds of the model: the inputs a tick is driven with.                  *)
(***************************************************************************)
\* The caller's clock never runs past MaxTime milliseconds.
MaxTime == 5000
\* Math.random() returns k / RandomDenominator, 0 <= k < RandomDenominator.
RandomDenominator == 100
\* The draws of Math.random() for the gap position and for the identifier.
GapDraws == {0, 99}
IdDraws == {0, 99}
\* deltaTime values a tick is called with: no time elapsed, or one frame.
DeltaTimes == {0, 250}
\* Extra advance of currentTime beyond deltaTime: none, or a long pause.
Pauses == {0, 4000}

VARIABLES
    state,   \* the GameState held by the caller
    now,     \* the latest currentTime the caller supplied
    call,    \* the last operation: its name, its arguments, the state it was given
    run,     \* history: the ids of the obstacles generated in the current run
    refs     \* the refs of GameContainer

vars == <<state, now, call, run, refs>>

(***************************************************************************)
(* physics.ts                                                              *)
(***************************************************************************)
\* Faulty variant: the elapsed time is not used.
applyGravity_ignoresDeltaTime(bird, deltaTime) ==
    [bird EXCEPT !.velocity = bird.velocity + gravity]

applyGravity(bird, deltaTime) ==
    [bird EXCEPT !.velocity = bird.velocity + gravity * deltaTime]

\* Faulty variant: the impulse is added to the velocity.
applyJump_additive(bird) ==
    [bird EXCEPT !.velocity = bird.velocity + jumpVelocity]

\* Faulty variant: the impulse is added to the velocity of a rising bird.
applyJump_stacks(bird) ==
    [bird EXCEPT !.velocity = IF bird.velocity < 0
                              THEN bird.velocity + jumpVelocity
                              ELSE jumpVelocity]

applyJump(bird) ==
    [bird EXCEPT !.velocity = jumpVelocity]

\* Faulty variant: a positive velocity moves the bird up.
updateBirdPosition_upward(bird, deltaTime) ==
    [bird EXCEPT !.y = bird.y - bird.velocity * deltaTime]

\* Faulty variant: the step adds the distance fallen under gravity, which
\* grows with the square of the elapsed time.
updateBirdPosition_quadratic(bird, deltaTime) ==
    [bird EXCEPT !.y = bird.y + bird.velocity * deltaTime
                           + (gravity * deltaTime * deltaTime) \div 2]

updateBirdPosition(bird, deltaTime) ==
    [bird EXCEPT !.y = bird.y + bird.velocity * deltaTime]

(***************************************************************************)
(* obstacles.ts                                                            *)
(***************************************************************************)
\* random1 and random2 are the two Math.random() results, as numerators
\* over RandomDenominator; the template string of the id is the pair
\* <<currentTime, random2>>.
\* Faulty variant: the gap position is drawn from [0, maxGapY).
generateObstacle_noOffset(currentTime, random1, random2) ==
    [id     |-> <<currentTime, random2>>,
     x      |-> width,
     gapY   |-> (random1 * maxGapY) \div RandomDenominator,
     passed |-> FALSE]

\* Faulty variant: the id is made of the random component only.
generateObstacle_idFromRandom(currentTime, random1, random2) ==
    [id     |-> <<0, random2>>,
     x      |-> width,
     gapY   |-> minGapY + (random1 * (maxGapY - minGapY)) \div RandomDenominator,
     passed |-> FALSE]

generateObstacle(currentTime, random1, random2) ==
    [id     |-> <<currentTime, random2>>,
     x      |-> width,
     gapY   |-> minGapY + (random1 * (maxGapY - minGapY)) \div RandomDenominator,
     passed |-> FALSE]

\* Faulty variant: the obstacles move to the right.
updateObstacles_movesRight(obstacles, deltaTime) ==
    [i \in 1..Len(obstacles) |->
        [obstacles[i] EXCEPT !.x = obstacles[i].x + obstacleSpeed * deltaTime]]

updateObstacles(obstacles, deltaTime) ==
    [i \in 1..Len(obstacles) |->
        [obstacles[i] EXCEPT !.x = obstacles[i].x - obstacleSpeed * deltaTime]]

\* Faulty variant: an obstacle exactly one width left of the edge is kept.
obstacleOnscreen_inclusive(obstacle) == obstacle.x >= -obstacleWidth

obstacleOnscreen(obstacle) == obstacle.x > -obstacleWidth

removeOffscreenObstacles(obstacles) ==
    SelectSeq(obstacles, obstacleOnscreen)

(***************************************************************************)
(* collision.ts                                                            *)
(***************************************************************************)
\* Faulty variant: an obstacle already marked passed is not tested.
checkBirdObstacleCollision_skipsPassed(bird, obstacle) ==
    IF obstacle.passed
    THEN FALSE
    ELSE IF birdStartX + birdRadius < obstacle.x
            \/ birdStartX - birdRadius > obstacle.x + obstacleWidth
         THEN FALSE
         ELSE IF bird.y - birdRadius >= obstacle.gapY - obstacleGap \div 2
                 /\ bird.y + birdRadius <= obstacle.gapY + obstacleGap \div 2
              THEN FALSE
              ELSE TRUE

\* Faulty variant: the gap-containment comparisons are strict.
checkBirdObstacleCollision_strictGap(bird, obstacle) ==
    IF birdStartX + birdRadius < obstacle.x
       \/ birdStartX - birdRadius > obstacle.x + obstacleWidth
    THEN FALSE
    ELSE IF bird.y - birdRadius > obstacle.gapY - obstacleGap \div 2
            /\ bird.y + birdRadius < obstacle.gapY + obstacleGap \div 2
         THEN FALSE
         ELSE TRUE

checkBirdObstacleCollision(bird, obstacle) ==
    LET birdX == birdStartX
        birdY == bird.y
        obstacleLeft == obstacle.x
        obstacleRight == obstacle.x + obstacleWidth
        \* obstacleGap / 2 is exact: obstacleGap is even
        gapTop == obstacle.gapY - obstacleGap \div 2
        gapBottom == obstacle.gapY + obstacleGap \div 2
    IN  IF birdX + birdRadius < obstacleLeft \/ birdX - birdRadius > obstacleRight
        THEN FALSE
        ELSE IF birdY - birdRadius >= gapTop /\ birdY + birdRadius <= gapBottom
             THEN FALSE
             ELSE TRUE

\* Faulty variant: the boundary comparisons are strict.
checkBirdBoundaryCollision_strict(bird) ==
    IF bird.y - birdRadius < topBoundary
    THEN TRUE
    ELSE IF bird.y + birdRadius > bottomBoundary
         THEN TRUE
         ELSE FALSE

\* Faulty variant: the bottom boundary is not checked.
checkBirdBoundaryCollision_topOnly(bird) ==
    IF bird.y - birdRadius <= topBoundary
    THEN TRUE
    ELSE FALSE

checkBirdBoundaryCollision(bird) ==
    IF bird.y - birdRadius <= topBoundary
    THEN TRUE
    ELSE IF bird.y + birdRadius >= bottomBoundary
         THEN TRUE
         ELSE FALSE

\* Faulty variant: the loop returns the result of the first obstacle it
\* looks at.
collisionFrom_firstOnly(bird, obstacles, i) ==
    IF i > Len(obstacles)
    THEN FALSE
    ELSE checkBirdObstacleCollision(bird, obstacles[i])

\* The for loop with its early return, as a scan from index i.
RECURSIVE collisionFrom(_, _, _)
collisionFrom(bird, obstacles, i) ==
    IF i > Len(obstacles)
    THEN FALSE
    ELSE IF checkBirdObstacleCollision(bird, obstacles[i])
         THEN TRUE
         ELSE collisionFrom(bird, obstacles, i + 1)

checkCollisions(bird, obstacles) ==
    IF checkBirdBoundaryCollision(bird)
    THEN TRUE
    ELSE collisionFrom(bird, obstacles, 1)

(***************************************************************************)
(* score.ts                                                                *)
(***************************************************************************)
\* Faulty variant: the trailing-edge comparison is inclusive.
newlyPassed_inclusive(obstacle) ==
    ~obstacle.passed /\ birdStartX >= obstacle.x + obstacleWidth

\* Faulty variant: the passed flag is not consulted.
newlyPassed_recount(obstacle) ==
    birdStartX > obstacle.x + obstacleWidth

\* The test of the map callback: the obstacle is newly passed.
newlyPassed(obstacle) ==
    ~obstacle.passed /\ birdStartX > obstacle.x + obstacleWidth

\* The map callback's effect on newScore after the first i obstacles.
RECURSIVE scoreAfter(_, _, _)
scoreAfter(obstacles, currentScore, i) ==
    IF i = 0
    THEN currentScore
    ELSE scoreAfter(obstacles, currentScore, i - 1)
         + (IF newlyPassed(obstacles[i]) THEN 1 ELSE 0)

\* Faulty variant: the passed flag is set to whether the obstacle was
\* counted in this call.
updateScore_flagsOnlyNew(obstacles, currentScore) ==
    [score     |-> scoreAfter(obstacles, currentScore, Len(obstacles)),
     obstacles |-> [i \in 1..Len(obstacles) |->
                       [obstacles[i] EXCEPT
                           !.passed = newlyPassed(obstacles[i])]]]

updateScore(obstacles, currentScore) ==
    [score     |-> scoreAfter(obstacles, currentScore, Len(obstacles)),
     obstacles |-> [i \in 1..Len(obstacles) |->
                       IF newlyPassed(obstacles[i])
                       THEN [obstacles[i] EXCEPT !.passed = TRUE]
                       ELSE obstacles[i]]]

(***************************************************************************)
(* gameState.ts                                                            *)
(***************************************************************************)
createInitialGameState ==
    [gameStatus       |-> "ready",
     bird             |-> [y |-> birdStartY, velocity |-> 0],
     obstacles        |-> <<>>,
     score            |-> 0,
     lastObstacleTime |-> 0]

\* Faulty variant: the restarted bird already carries the jump impulse.
restartGame_jumping ==
    [createInitialGameState EXCEPT !.bird = applyJump(createInitialGameState.bird)]

restartGame == createInitialGameState

\* Faulty variants of the playing branch, selected by fault:
\*   "preTickCollision"  the collision check is given the bird and the
\*                       obstacles the tick started with;
\*   "staleSnapshot"     on a collision the state of the previous tick is
\*                       returned with the status changed;
\*   "catchUp"           one obstacle is generated per elapsed interval;
\*   "gravityBeforeJump" the impulse is applied after gravity;
\*   "positionFirst"     the position is integrated before gravity is
\*                       applied, with the velocity of before it;
\*   "generateFirst"     the new obstacle is appended before the obstacles
\*                       are advanced and pruned;
\*   "noPrune"           off-screen obstacles are not removed;
\*   "staleObstacles"    the collision check is given the obstacles the tick
\*                       started with;
\*   "scoreOfCollection" the score is the number of passed obstacles in the
\*                       collection;
\*   "prepend"           the new obstacle is put in front of the collection.
faultyPlaying(s, deltaTime, jumpPressed, currentTime, random1, random2, fault) ==
    LET jumped == IF jumpPressed THEN applyJump(s.bird) ELSE s.bird
        accelerated ==
            IF fault = "gravityBeforeJump"
            THEN (IF jumpPressed
                  THEN applyJump(applyGravity(s.bird, deltaTime))
                  ELSE applyGravity(s.bird, deltaTime))
            ELSE applyGravity(jumped, deltaTime)
        updatedBird ==
            IF fault = "positionFirst"
            THEN applyGravity(updateBirdPosition(jumped, deltaTime), deltaTime)
            ELSE updateBirdPosition(accelerated, deltaTime)
        timeSinceLastObstacle == currentTime - s.lastObstacleTime
        due == timeSinceLastObstacle >= obstacleInterval
        fresh == generateObstacle(currentTime, random1, random2)
        moved ==
            IF fault = "noPrune"
            THEN updateObstacles(s.obstacles, deltaTime)
            ELSE IF fault = "generateFirst" /\ due
            THEN removeOffscreenObstacles(
                     updateObstacles(Append(s.obstacles, fresh), deltaTime))
            ELSE removeOffscreenObstacles(updateObstacles(s.obstacles, deltaTime))
        updatedObstacles ==
            IF due /\ fault # "generateFirst"
            THEN (IF fault = "catchUp"
                     /\ timeSinceLastObstacle >= 2 * obstacleInterval
                  THEN Append(Append(moved, fresh), fresh)
                  ELSE IF fault = "prepend"
                  THEN <<fresh>> \o moved
                  ELSE Append(moved, fresh))
            ELSE moved
        lastObstacleTime == IF due THEN currentTime ELSE s.lastObstacleTime
        counted == updateScore(updatedObstacles, s.score)
        scored ==
            IF fault = "scoreOfCollection"
            THEN [counted EXCEPT !.score =
                     Cardinality({i \in 1..Len(counted.obstacles) :
                                     counted.obstacles[i].passed})]
            ELSE counted
        hasCollision ==
            IF fault = "preTickCollision"
            THEN checkCollisions(s.bird, s.obstacles)
            ELSE IF fault = "staleObstacles"
            THEN checkCollisions(updatedBird, s.obstacles)
            ELSE checkCollisions(updatedBird, scored.obstacles)
    IN  IF hasCollision
        THEN (IF fault = "staleSnapshot"
              THEN [s EXCEPT !.gameStatus = "gameOver"]
              ELSE [s EXCEPT !.gameStatus = "gameOver",
                             !.bird = updatedBird,
                             !.obstacles = scored.obstacles,
                             !.score = scored.score,
                             !.lastObstacleTime = lastObstacleTime])
        ELSE [gameStatus       |-> "playing",
              bird             |-> updatedBird,
              obstacles        |-> scored.obstacles,
              score            |-> scored.score,
              lastObstacleTime |-> lastObstacleTime]

updatePlaying_preTickCollision(s, deltaTime, jumpPressed, currentTime, random1, random2) ==
    faultyPlaying(s, deltaTime, jumpPressed, currentTime, random1, random2,
                  "preTickCollision")

updatePlaying_staleSnapshot(s, deltaTime, jumpPressed, currentTime, random1, random2) ==
    faultyPlaying(s, deltaTime, jumpPressed, currentTime, random1, random2,
                  "staleSnapshot")

updatePlaying_catchUp(s, deltaTime, jumpPressed, currentTime, random1, random2) ==
    faultyPlaying(s, deltaTime, jumpPressed, currentTime, random1, random2,
                  "catchUp")

updatePlaying_gravityBeforeJump(s, deltaTime, jumpPressed, currentTime, random1, random2) ==
    faultyPlaying(s, deltaTime, jumpPressed, currentTime, random1, random2,
                  "gravityBeforeJump")

updatePlaying_positionFirst(s, deltaTime, jumpPressed, currentTime, random1, random2) ==
    faultyPlaying(s, deltaTime, jumpPressed, currentTime, random1, random2,
                  "positionFirst")

updatePlaying_generateFirst(s, deltaTime, jumpPressed, currentTime, random1, random2) ==
    faultyPlaying(s, deltaTime, jumpPressed, currentTime, random1, random2,
                  "generateFirst")

updatePlaying_noPrune(s, deltaTime, jumpPressed, currentTime, random1, random2) ==
    faultyPlaying(s, deltaTime, jumpPressed, currentTime, random1, random2,
                  "noPrune")

updatePlaying_staleObstacles(s, deltaTime, jumpPressed, currentTime, random1, random2) ==
    faultyPlaying(s, deltaTime, jumpPressed, currentTime, random1, random2,
                  "staleObstacles")

updatePlaying_scoreOfCollection(s, deltaTime, jumpPressed, currentTime, random1, random2) ==
    faultyPlaying(s, deltaTime, jumpPressed, currentTime, random1, random2,
                  "scoreOfCollection")

updatePlaying_prepend(s, deltaTime, jumpPressed, currentTime, random1, random2) ==
    faultyPlaying(s, deltaTime, jumpPressed, currentTime, random1, random2,
                  "prepend")

\* Faulty variant: the elapsed time is raised to at least one frame of 16 ms.
updatePlaying_minStep(s, deltaTime, jumpPressed, currentTime, random1, random2) ==
    faultyPlaying(s, IF deltaTime < 16 THEN 16 ELSE deltaTime, jumpPressed,
                  currentTime, random1, random2, "none")

\* The playing branch of updateGameState (gameState.ts lines 71-124).
updatePlaying(s, deltaTime, jumpPressed, currentTime, random1, random2) ==
    LET jumped == IF jumpPressed THEN applyJump(s.bird) ELSE s.bird
        updatedBird == updateBirdPosition(applyGravity(jumped, deltaTime), deltaTime)
        moved == removeOffscreenObstacles(updateObstacles(s.obstacles, deltaTime))
        timeSinceLastObstacle == currentTime - s.lastObstacleTime
        due == timeSinceLastObstacle >= obstacleInterval
        updatedObstacles ==
            IF due
            THEN Append(moved, generateObstacle(currentTime, random1, random2))
            ELSE moved
        lastObstacleTime == IF due THEN currentTime ELSE s.lastObstacleTime
        scored == updateScore(updatedObstacles, s.score)
        hasCollision == checkCollisions(updatedBird, scored.obstacles)
    IN  IF hasCollision
        THEN [s EXCEPT !.gameStatus = "gameOver",
                       !.bird = updatedBird,
                       !.obstacles = scored.obstacles,
                       !.score = scored.score,
                       !.lastObstacleTime = lastObstacleTime]
        ELSE [gameStatus       |-> "playing",
              bird             |-> updatedBird,
              obstacles        |-> scored.obstacles,
              score            |-> scored.score,
              lastObstacleTime |-> lastObstacleTime]

\* Faulty variant: the game-over guard is missing.
updateGameState_noFreeze(s, deltaTime, jumpPressed, currentTime, random1, random2) ==
    IF s.gameStatus = "ready" /\ jumpPressed
    THEN [s EXCEPT !.gameStatus = "playing",
                   !.bird = applyJump(s.bird),
                   !.lastObstacleTime = currentTime]
    ELSE IF s.gameStatus = "ready"
         THEN s
         ELSE updatePlaying(s, deltaTime, jumpPressed, currentTime,
                            random1, random2)

\* Faulty variant: a jump on a game-over state starts a new run.
updateGameState_jumpRevives(s, deltaTime, jumpPressed, currentTime, random1, random2) ==
    IF s.gameStatus = "gameOver" /\ ~jumpPressed
    THEN s
    ELSE IF s.gameStatus \in {"ready", "gameOver"} /\ jumpPressed
         THEN [s EXCEPT !.gameStatus = "playing",
                        !.bird = applyJump(s.bird),
                        !.lastObstacleTime = currentTime]
         ELSE IF s.gameStatus = "ready"
              THEN s
              ELSE updatePlaying(s, deltaTime, jumpPressed, currentTime,
                                 random1, random2)

\* Faulty variant: the starting tick also integrates gravity and position.
updateGameState_startIntegrates(s, deltaTime, jumpPressed, currentTime, random1, random2) ==
    IF s.gameStatus = "gameOver"
    THEN s
    ELSE IF s.gameStatus = "ready" /\ jumpPressed
         THEN [s EXCEPT !.gameStatus = "playing",
                        !.bird = updateBirdPosition(
                                     applyGravity(applyJump(s.bird), deltaTime),
                                     deltaTime),
                        !.lastObstacleTime = currentTime]
         ELSE IF s.gameStatus = "ready"
              THEN s
              ELSE updatePlaying(s, deltaTime, jumpPressed, currentTime,
                                 random1, random2)

\* Faulty variant: a ready state without a jump falls through to the
\* playing branch.
updateGameState_readyFallsThrough(s, deltaTime, jumpPressed, currentTime, random1, random2) ==
    IF s.gameStatus = "gameOver"
    THEN s
    ELSE IF s.gameStatus = "ready" /\ jumpPressed
         THEN [s EXCEPT !.gameStatus = "playing",
                        !.bird = applyJump(s.bird),
                        !.lastObstacleTime = currentTime]
         ELSE updatePlaying(s, deltaTime, jumpPressed, currentTime,
                            random1, random2)

\* Faulty variant: the starting tick does not record its currentTime.
updateGameState_startKeepsTime(s, deltaTime, jumpPressed, currentTime, random1, random2) ==
    IF s.gameStatus = "gameOver"
    THEN s
    ELSE IF s.gameStatus = "ready" /\ jumpPressed
         THEN [s EXCEPT !.gameStatus = "playing",
                        !.bird = applyJump(s.bird)]
         ELSE IF s.gameStatus = "ready"
              THEN s
              ELSE updatePlaying(s, deltaTime, jumpPressed, currentTime,
                                 random1, random2)

updateGameState(s, deltaTime, jumpPressed, currentTime, random1, random2) ==
    IF s.gameStatus = "gameOver"
    THEN s
    ELSE IF s.gameStatus = "ready" /\ jumpPressed
         THEN [s EXCEPT !.gameStatus = "playing",
                        !.bird = applyJump(s.bird),
                        !.lastObstacleTime = currentTime]
         ELSE IF s.gameStatus = "ready"
              THEN s
              ELSE updatePlaying(s, deltaTime, jumpPressed, currentTime,
                                 random1, random2)

(***************************************************************************)
(* The caller: it holds one GameState, ticks it with the elapsed time, the *)
(* jump request and its clock, and may restart at any time.                *)
(***************************************************************************)
NoCall ==
    [op |-> "none", deltaTime |-> 0, jumpPressed |-> FALSE, currentTime |-> 0,
     pre |-> createInitialGameState]

\* The history of a run that has not started: no obstacle has been
\* generated, no start has been recorded, no jump input is waiting.
\*   generated  the ids of the obstacles generated in the run, in order;
\*   started    the currentTime given to the ready -> playing tick;
\*   startedAt  the caller's clock at that tick;
\*   presses    the jump inputs received since the last frame (0, 1, or 2
\*              for two or more).
NoRun == [generated |-> <<>>, started |-> -1, startedAt |-> -1, presses |-> 0]

\* The ids of the obstacles a tick added: those at the end of `after`
\* beyond the obstacles of `before` that are still in `after`.
Fresh(before, after) ==
    LET carried == Cardinality({j \in 1..Len(before) :
                       \E k \in 1..Len(after) : after[k].id = before[j].id})
        first   == IF carried < Len(after) THEN carried + 1 ELSE Len(after) + 1
    IN  [k \in 1..(Len(after) + 1 - first) |-> after[first + k - 1].id]

\* The history after a tick that was given `before` at currentTime, the
\* caller's clock being `clock`, and returned `after`.
runAfter(r, before, after, currentTime, clock) ==
    LET grown == [r EXCEPT !.generated =
                     @ \o Fresh(before.obstacles, after.obstacles)]
    IN  IF before.gameStatus = "ready" /\ after.gameStatus = "playing"
        THEN [grown EXCEPT !.started = currentTime, !.startedAt = clock]
        ELSE grown

\* The refs of GameContainer when it is mounted: no frame is requested.
mountedRefs ==
    [animationFrameRef |-> FALSE, lastTimeRef |-> 0,
     jumpPressedRef |-> FALSE, gameStatusRef |-> "ready"]

Init ==
    /\ state = createInitialGameState
    /\ now = 0
    /\ call = NoCall
    /\ run = NoRun
    /\ refs = mountedRefs

\* One call of updateGameState on the held state.  The two random numbers
\* are drawn inside the call (by generateObstacle); they are not arguments.
Tick(deltaTime, jumpPressed, pause) ==
    LET currentTime == now + deltaTime + pause
    IN  /\ currentTime <= MaxTime
        /\ \E random1 \in GapDraws, random2 \in IdDraws :
              state' = updateGameState(state, deltaTime, jumpPressed,
                                       currentTime, random1, random2)
        /\ now' = currentTime
        /\ call' = [op |-> "tick", deltaTime |-> deltaTime,
                    jumpPressed |-> jumpPressed, currentTime |-> currentTime,
                    pre |-> state]
        /\ run' = runAfter(run, state, state', currentTime, currentTime)
        /\ refs' = refs

Restart ==
    /\ state' = restartGame
    /\ now' = now
    /\ call' = [NoCall EXCEPT !.op = "restart", !.pre = state]
    /\ run' = NoRun
    /\ refs' = refs

Next ==
    \/ \E deltaTime \in DeltaTimes, jumpPressed \in BOOLEAN, pause \in Pauses :
            Tick(deltaTime, jumpPressed, pause)
    \/ Restart

Spec == Init /\ [][Next]_vars

\* One run of the game when frames are late.  The run starts the way the
\* input handlers of GameContainer start it, updateGameState(s, 0, true, 0);
\* then each tick comes one frame or one long frame (the page was in the
\* background) after the last, and the clock advances by deltaTime.
LongDeltaTimes == {250, 600}

StartRun ==
    /\ state.gameStatus = "ready"
    /\ Tick(0, TRUE, 0)

LateTick(deltaTime, jumpPressed) ==
    /\ state.gameStatus = "playing"
    /\ Tick(deltaTime, jumpPressed, 0)

LongFrameNext ==
    \/ StartRun
    \/ \E deltaTime \in LongDeltaTimes, jumpPressed \in BOOLEAN :
            LateTick(deltaTime, jumpPressed)

LongFrameSpec == Init /\ [][LongFrameNext]_vars

(***************************************************************************)
(* A run in which the player stops jumping.  While the player plays, the   *)
(* ticks are those of the caller above; from the first tick of the fall on *)
(* every tick has jumpPressed = false and a deltaTime from FallTimes, and   *)
(* such ticks keep coming for as long as the run lasts.                    *)
(* The fall may go on past MaxTime, by MaxFallTime at most.                *)
(***************************************************************************)
MaxFallTime == 2500
FallTimes == {100, 250}

PlayTick(deltaTime, jumpPressed, pause) ==
    /\ call.op # "fall"
    /\ Tick(deltaTime, jumpPressed, pause)

FallTick(deltaTime) ==
    LET currentTime == now + deltaTime
    IN  /\ state.gameStatus = "playing"
        /\ currentTime <= MaxTime + MaxFallTime
        /\ \E random1 \in GapDraws, random2 \in IdDraws :
              state' = updateGameState(state, deltaTime, FALSE,
                                       currentTime, random1, random2)
        /\ now' = currentTime
        /\ call' = [op |-> "fall", deltaTime |-> deltaTime,
                    jumpPressed |-> FALSE, currentTime |-> currentTime,
                    pre |-> state]
        /\ run' = runAfter(run, state, state', currentTime, currentTime)
        /\ refs' = refs

Fall == \E deltaTime \in FallTimes : FallTick(deltaTime)

FallNext ==
    \/ \E jumpPressed \in BOOLEAN, pause \in Pauses :
            PlayTick(250, jumpPressed, pause)
    \/ Fall

FallSpec == Init /\ [][FallNext]_vars /\ WF_vars(Fall)

(***************************************************************************)
(* GameContainer, the running application: the input handlers, the game    *)
(* loop, the effects and the restart button.  `state` is the stored        *)
(* GameState and `now` the timestamp of the latest frame.                  *)
(*                                                                         *)
(* The effects of a render run together, so the status the input handlers  *)
(* see in their closure is the status gameStatusRef holds.  A state update *)
(* made by an input handler or by the restart button is rendered, and its  *)
(* effects are run, before anything else happens.  A state update made by  *)
(* the game loop is rendered later: until its effects have run,            *)
(* gameStatusRef, the handlers and the requested frame are those of the    *)
(* status before, and frames and inputs may arrive in between.             *)
(***************************************************************************)
\* The keys pressed: the space bar and one other key.
KeyCodes == {"Space", "Enter"}
\* The time from one frame to the next; the first frame comes that long
\* after the page was loaded.
FrameGaps == {250, 2000}

\* The effects of a render of state s when the status has changed since
\* they last ran: the status effect (lines 84-86) and the game-loop effect
\* (its cleanup, then its body).
afterRender(r, s) ==
    IF s.gameStatus = r.gameStatusRef
    THEN r
    ELSE [r EXCEPT !.gameStatusRef = s.gameStatus,
                   !.animationFrameRef = (s.gameStatus = "playing"),
                   !.lastTimeRef = IF s.gameStatus = "playing" THEN 0 ELSE @]

\* Faulty variant: an input on the game-over screen starts the next run.
handleInput_startsAgain(s, r) ==
    LET seen     == r.gameStatusRef
        newState == IF seen \in {"ready", "gameOver"}
                    THEN updateGameState(createInitialGameState, 0, TRUE, 0, 0, 0)
                    ELSE s
        flagged  == IF seen = "playing"
                    THEN [r EXCEPT !.jumpPressedRef = TRUE]
                    ELSE r
    IN  [state |-> newState,
         refs  |-> IF newState # s THEN afterRender(flagged, newState)
                                   ELSE flagged]

\* What handleKeyDown (for the space bar) and handleClick do to the state
\* and the refs; `seen` is the status of the gameState in their closure.
\* Starting the run draws no random number.
handleInput(s, r) ==
    LET seen     == r.gameStatusRef
        newState == IF seen = "ready"
                    THEN updateGameState(s, 0, TRUE, 0, 0, 0)
                    ELSE s
        flagged  == IF seen = "playing"
                    THEN [r EXCEPT !.jumpPressedRef = TRUE]
                    ELSE r
    IN  [state |-> newState,
         refs  |-> IF newState # s THEN afterRender(flagged, newState)
                                   ELSE flagged]

\* The history after an input handler ran: a start is recorded, and a jump
\* input received by the playing handlers is counted.
inputRun(r, before, after) ==
    LET started == runAfter(r, before.state, after.state, 0, now)
    IN  IF before.refs.gameStatusRef = "playing"
        THEN [started EXCEPT !.presses = IF @ < 2 THEN @ + 1 ELSE 2]
        ELSE started

KeyDown(code) ==
    LET before == [state |-> state, refs |-> refs]
        after  == IF code = "Space" THEN handleInput(state, refs) ELSE before
    IN  /\ state' = after.state
        /\ refs' = after.refs
        /\ call' = [op |-> "keydown", code |-> code, pre |-> state,
                    seen |-> refs.gameStatusRef]
        /\ run' = IF code = "Space" THEN inputRun(run, before, after) ELSE run
        /\ now' = now

Click ==
    LET before == [state |-> state, refs |-> refs]
        after  == handleInput(state, refs)
    IN  /\ state' = after.state
        /\ refs' = after.refs
        /\ call' = [op |-> "click", code |-> "none", pre |-> state,
                    seen |-> refs.gameStatusRef]
        /\ run' = inputRun(run, before, after)
        /\ now' = now

\* Faulty variant: the jump flag is not reset after the tick.
gameLoopRefs_keepsFlag(r, timestamp) ==
    [r EXCEPT !.lastTimeRef = timestamp,
              !.animationFrameRef = (r.gameStatusRef = "playing")]

\* What gameLoop does to the refs: it records the timestamp, resets the
\* jump flag when it ticked, and requests the next frame while
\* gameStatusRef is "playing".
gameLoopRefs(r, timestamp) ==
    [r EXCEPT !.lastTimeRef = timestamp,
              !.jumpPressedRef = IF r.gameStatusRef = "playing" THEN FALSE ELSE @,
              !.animationFrameRef = (r.gameStatusRef = "playing")]

\* One run of gameLoop, for the frame requested.  The state update is not
\* followed by its effects here.
Frame(gap) ==
    LET timestamp == now + gap
        lastTime  == IF refs.lastTimeRef = 0 THEN timestamp
                                             ELSE refs.lastTimeRef
        deltaTime == timestamp - lastTime
        jumpFlag  == refs.jumpPressedRef
        ticks     == refs.gameStatusRef = "playing"
    IN  /\ refs.animationFrameRef
        /\ timestamp <= MaxTime
        /\ \E random1 \in GapDraws, random2 \in IdDraws :
              state' = IF ticks
                       THEN updateGameState(state, deltaTime, jumpFlag,
                                            timestamp, random1, random2)
                       ELSE state
        /\ refs' = gameLoopRefs(refs, timestamp)
        /\ now' = timestamp
        /\ call' = [op |-> "frame", deltaTime |-> deltaTime,
                    jumpPressed |-> jumpFlag, currentTime |-> timestamp,
                    pre |-> state, ticked |-> ticks,
                    seen |-> refs.gameStatusRef, presses |-> run.presses]
        /\ run' = [runAfter(run, state, state', timestamp, timestamp)
                      EXCEPT !.presses = IF ticks THEN 0 ELSE @]

\* The effects of the render of a state whose status the game loop
\* changed.
RunEffects ==
    /\ refs.gameStatusRef # state.gameStatus
    /\ refs' = afterRender(refs, state)
    /\ call' = [op |-> "effects", pre |-> state, seen |-> refs.gameStatusRef]
    /\ UNCHANGED <<state, now, run>>

\* A click on the restart button of the game-over screen: handleRestart.
\* The click then reaches the window's click listener: the one attached
\* for the game-over state, which does nothing, or, when the listeners were
\* re-attached before the click got there, the one attached for the ready
\* state, which starts the next run.
RestartClick(reattached) ==
    LET restarted == restartGame
        started   == updateGameState(restarted, 0, TRUE, 0, 0, 0)
        reset     == afterRender([refs EXCEPT !.lastTimeRef = 0,
                                              !.jumpPressedRef = FALSE],
                                 restarted)
    IN  /\ state.gameStatus = "gameOver"
        /\ state' = IF reattached THEN started ELSE restarted
        /\ refs' = IF reattached THEN afterRender(reset, started) ELSE reset
        /\ now' = now
        /\ call' = [op |-> "restartClick", reattached |-> reattached,
                    pre |-> state, seen |-> refs.gameStatusRef]
        /\ run' = IF reattached
                  THEN runAfter(NoRun, restarted, started, 0, now)
                  ELSE NoRun

AppNext ==
    \/ \E code \in KeyCodes : KeyDown(code)
    \/ Click
    \/ \E gap \in FrameGaps : Frame(gap)
    \/ RunEffects
    \/ \E reattached \in BOOLEAN : RestartClick(reattached)

AppSpec == Init /\ [][AppNext]_vars

(***************************************************************************)
(* updateScore on its own: the inputs are drawn from a bounded set of      *)
(* obstacle collections whose trailing edges lie just left of, exactly at  *)
(* and just right of the bird's horizontal position.                       *)
(***************************************************************************)
\* The longest obstacle collection updateScore is applied to.
MaxObstacles == 3

ScoreXs ==
    {birdStartX - obstacleWidth - 1,
     birdStartX - obstacleWidth,
     birdStartX - obstacleWidth + 1}

ScoreObstacles ==
    [id : {<<0, 0>>}, x : ScoreXs, gapY : {minGapY}, passed : BOOLEAN]

ScoreCollections ==
    UNION {[1..n -> ScoreObstacles] : n \in 0..MaxObstacles}

ScoreInit ==
    /\ state \in {[createInitialGameState EXCEPT !.gameStatus = "playing",
                                                 !.obstacles = obstacles,
                                                 !.score = score] :
                     obstacles \in ScoreCollections, score \in {0, 7}}
    /\ now = 0
    /\ run = NoRun
    /\ refs = mountedRefs
    /\ call = NoCall

ScoreStep ==
    LET result == updateScore(state.obstacles, state.score)
    IN  /\ state' = [state EXCEPT !.obstacles = result.obstacles,
                                  !.score = result.score]
        /\ UNCHANGED <<now, run, refs>>
        /\ call' = [NoCall EXCEPT !.op = "updateScore", !.pre = state]

ScoreNext == ScoreStep

ScoreSpec == ScoreInit /\ [][ScoreNext]_vars

(***************************************************************************)
(* Properties.  call.pre is the state an operation was given, state is the *)
(* state it returned.                                                      *)
(***************************************************************************)
TickOn(status) == call.op = "tick" /\ call.pre.gameStatus = status

\* C1: a tick on a gameOver state returns a state identical to its input in
\* status, bird position, bird velocity, obstacles, score and
\* lastObstacleTime, for every deltaTime, jumpRequested and currentTime.
C1_GameOverFrozen ==
    TickOn("gameOver") =>
        /\ state.gameStatus = call.pre.gameStatus
        /\ state.bird.y = call.pre.bird.y
        /\ state.bird.velocity = call.pre.bird.velocity
        /\ state.obstacles = call.pre.obstacles
        /\ state.score = call.pre.score
        /\ state.lastObstacleTime = call.pre.lastObstacleTime

\* A gameOver state holding an obstacle is ticked with a jump, elapsed time
\* and an obstacle interval overdue.
C1_Witness ==
    /\ TickOn("gameOver")
    /\ call.jumpPressed
    /\ call.deltaTime > 0
    /\ Len(call.pre.obstacles) > 0
    /\ call.currentTime - call.pre.lastObstacleTime >= obstacleInterval

\* C2: a tick changes the status only along ready -> playing -> gameOver
\* (never ready -> gameOver, playing -> ready, or out of gameOver); a ready
\* state that follows another status is produced by restart only.
C2_StatusOrder ==
    /\ call.op = "tick" =>
          <<call.pre.gameStatus, state.gameStatus>> \in
              {<<"ready", "ready">>, <<"ready", "playing">>,
               <<"playing", "playing">>, <<"playing", "gameOver">>,
               <<"gameOver", "gameOver">>}
    /\ (state.gameStatus = "ready" /\ call.pre.gameStatus # "ready") =>
          call.op = "restart"

\* A gameOver state is ticked with a jump request and stays gameOver.
C2_Witness ==
    /\ TickOn("gameOver")
    /\ call.jumpPressed
    /\ state.gameStatus = "gameOver"

\* C3: a tick on a ready state with a jump returns status playing, velocity
\* jumpVelocity, the position unchanged, lastObstacleTime = currentTime,
\* score 0 and no obstacles.
C3_StartTick ==
    (TickOn("ready") /\ call.jumpPressed) =>
        /\ state.gameStatus = "playing"
        /\ state.bird.velocity = jumpVelocity
        /\ state.bird.y = call.pre.bird.y
        /\ state.lastObstacleTime = call.currentTime
        /\ state.score = 0
        /\ state.obstacles = <<>>

\* The run is started by a tick with elapsed time at a currentTime far
\* enough for an obstacle to be due.
C3_Witness ==
    /\ TickOn("ready")
    /\ call.jumpPressed
    /\ call.deltaTime > 0
    /\ call.currentTime >= obstacleInterval

\* C4: a tick on a ready state without a jump returns the state unchanged
\* in every field.
C4_ReadyNoOp ==
    (TickOn("ready") /\ ~call.jumpPressed) => state = call.pre

\* A ready state is ticked without a jump, with elapsed time, when an
\* obstacle interval has elapsed since lastObstacleTime.
C4_Witness ==
    /\ TickOn("ready")
    /\ ~call.jumpPressed
    /\ call.deltaTime > 0
    /\ call.currentTime - call.pre.lastObstacleTime >= obstacleInterval

\* C5: a tick on a playing state returns gameOver exactly when the
\* collision check is true of the bird and the obstacles as updated in that
\* tick, and playing otherwise.
C5_CollisionDecidesStatus ==
    TickOn("playing") =>
        state.gameStatus =
            (IF checkCollisions(state.bird, state.obstacles)
             THEN "gameOver" ELSE "playing")

\* A playing tick ends the run on an obstacle although the bird and the
\* obstacles it started with did not collide.
C5_Witness ==
    /\ TickOn("playing")
    /\ state.gameStatus = "gameOver"
    /\ ~checkBirdBoundaryCollision(state.bird)
    /\ ~checkCollisions(call.pre.bird, call.pre.obstacles)

\* The bird a playing tick computes: impulse if requested, gravity, position.
TickBird(bird, deltaTime, jumpPressed) ==
    LET v == (IF jumpPressed THEN jumpVelocity ELSE bird.velocity)
             + gravity * deltaTime
    IN  [y |-> bird.y + v * deltaTime, velocity |-> v]

\* The indices of the obstacles that stay on the playfield after moving.
Kept(obstacles, deltaTime) ==
    {i \in 1..Len(obstacles) :
        obstacles[i].x - obstacleSpeed * deltaTime > -obstacleWidth}

\* An obstacle interval has elapsed at the tick recorded in call.
Due == call.currentTime - call.pre.lastObstacleTime >= obstacleInterval

\* C6: on a playing tick the returned bird, obstacles, score and
\* lastObstacleTime are the values computed in that tick, whether or not a
\* collision was detected.
C6_SnapshotOfThisTick ==
    TickOn("playing") =>
        LET kept == Kept(call.pre.obstacles, call.deltaTime)
            n == Cardinality(kept) + (IF Due THEN 1 ELSE 0)
        IN  /\ state.bird = TickBird(call.pre.bird, call.deltaTime,
                                     call.jumpPressed)
            /\ Len(state.obstacles) = n
            /\ \A i \in 1..Len(state.obstacles) :
                  /\ state.obstacles[i].passed =>
                        birdStartX > state.obstacles[i].x + obstacleWidth
                  /\ birdStartX > state.obstacles[i].x + obstacleWidth =>
                        state.obstacles[i].passed
            /\ \A i \in 1..Cardinality(kept) :
                  \E j \in kept :
                      /\ state.obstacles[i].id = call.pre.obstacles[j].id
                      /\ state.obstacles[i].x =
                            call.pre.obstacles[j].x
                            - obstacleSpeed * call.deltaTime
            /\ state.score >= call.pre.score
            /\ state.score - call.pre.score =
                  Cardinality({i \in 1..Len(state.obstacles) :
                      /\ state.obstacles[i].passed
                      /\ \A j \in kept :
                            call.pre.obstacles[j].id = state.obstacles[i].id
                            => ~call.pre.obstacles[j].passed})
            /\ state.lastObstacleTime =
                  (IF Due THEN call.currentTime ELSE call.pre.lastObstacleTime)

\* A playing tick with elapsed time ends the run and returns moved
\* obstacles, a moved bird and a new obstacle generated in that tick.
C6_Witness ==
    /\ TickOn("playing")
    /\ state.gameStatus = "gameOver"
    /\ call.deltaTime > 0
    /\ Len(call.pre.obstacles) > 0
    /\ state.bird # call.pre.bird
    /\ state.obstacles # call.pre.obstacles
    /\ state.lastObstacleTime # call.pre.lastObstacleTime

\* C7: restart returns, whatever state preceded it, the initial state:
\* status ready, bird at the start position with velocity 0, no obstacles,
\* score 0, lastObstacleTime 0.
C7_RestartIsInitial ==
    call.op = "restart" =>
        /\ state.gameStatus = "ready"
        /\ state.bird.y = birdStartY
        /\ state.bird.velocity = 0
        /\ state.obstacles = <<>>
        /\ state.score = 0
        /\ state.lastObstacleTime = 0
        /\ state = createInitialGameState

\* Restart from a gameOver state with a positive score and obstacles.
C7_Witness ==
    /\ call.op = "restart"
    /\ call.pre.gameStatus = "gameOver"
    /\ call.pre.score > 0
    /\ Len(call.pre.obstacles) > 0
    /\ call.pre.lastObstacleTime > 0

\* C8: on a playing tick exactly one obstacle is appended at the end and
\* lastObstacleTime becomes currentTime if and only if
\* currentTime - lastObstacleTime >= obstacleInterval; otherwise nothing is
\* appended and lastObstacleTime is unchanged.  Never more than one.
C8_OneObstaclePerInterval ==
    TickOn("playing") =>
        LET kept == Cardinality(Kept(call.pre.obstacles, call.deltaTime))
            len == Len(state.obstacles)
        IN  IF Due
            THEN /\ len = kept + 1
                 /\ state.obstacles[len].id[1] = call.currentTime
                 /\ state.obstacles[len].x = width
                 /\ \A i \in 1..(len - 1) :
                       state.obstacles[i].id # state.obstacles[len].id
                 /\ state.lastObstacleTime = call.currentTime
            ELSE /\ len = kept
                 /\ \A i \in 1..len :
                       \E j \in 1..Len(call.pre.obstacles) :
                           state.obstacles[i].id = call.pre.obstacles[j].id
                 /\ state.lastObstacleTime = call.pre.lastObstacleTime

\* A playing tick at which two whole intervals have elapsed appends one
\* obstacle, not two.
C8_Witness ==
    /\ TickOn("playing")
    /\ call.currentTime - call.pre.lastObstacleTime >= 2 * obstacleInterval
    /\ Len(state.obstacles) = Len(call.pre.obstacles) + 1
    /\ state.lastObstacleTime = call.currentTime

\* C9: on a playing tick with a jump the resulting velocity is
\* jumpVelocity + gravity * deltaTime, whatever the velocity was before.
C9_JumpThenGravity ==
    (TickOn("playing") /\ call.jumpPressed) =>
        state.bird.velocity = jumpVelocity + gravity * call.deltaTime

\* A falling bird jumps in a tick with elapsed time.
C9_Witness ==
    /\ TickOn("playing")
    /\ call.jumpPressed
    /\ call.deltaTime > 0
    /\ call.pre.bird.velocity > 0

\* The indices of the obstacles updateScore has to count.
ToCount(obstacles) ==
    {i \in 1..Len(obstacles) :
        /\ obstacles[i].passed = FALSE
        /\ birdStartX > obstacles[i].x + obstacleWidth}

\* C10: updateScore returns currentScore + the number of obstacles with
\* passed = false and birdStartX > x + obstacleWidth, marks exactly those
\* passed, and leaves every other obstacle, every other field and the
\* order unchanged.
C10_UpdateScore ==
    call.op = "updateScore" =>
        LET before == call.pre.obstacles
            after == state.obstacles
        IN  /\ state.score = call.pre.score + Cardinality(ToCount(before))
            /\ Len(after) = Len(before)
            /\ \A i \in 1..Len(before) :
                  /\ after[i].id = before[i].id
                  /\ after[i].x = before[i].x
                  /\ after[i].gapY = before[i].gapY
                  /\ after[i].passed =
                        (before[i].passed \/ i \in ToCount(before))

\* updateScore was given three obstacles: one to count, one already passed
\* and one whose trailing edge is exactly at the bird's position.
C10_Witness ==
    /\ call.op = "updateScore"
    /\ Len(call.pre.obstacles) = 3
    /\ call.pre.score > 0
    /\ state.score = call.pre.score + 1
    /\ \E i, j, k \in 1..3 :
          /\ i \in ToCount(call.pre.obstacles)
          /\ call.pre.obstacles[j].passed
          /\ ~call.pre.obstacles[k].passed
          /\ call.pre.obstacles[k].x + obstacleWidth = birdStartX

\* The obstacle of the given collection with the given id (ids are unique
\* within a collection a run produces), as a set of indices.
WithId(obstacles, id) == {j \in 1..Len(obstacles) : obstacles[j].id = id}

\* C11: over the ticks of a run each obstacle adds to the score at most
\* once: a passed flag that is true stays true for as long as the obstacle
\* is in the collection, the score grows in a tick by exactly the number of
\* obstacles whose flag turned from false to true in that tick, and
\* updateScore applied to its own output changes neither score nor obstacles.
C11_ScoredOnce ==
    call.op = "tick" =>
        LET before == call.pre.obstacles
            after == state.obstacles
            turned == {i \in 1..Len(after) :
                          /\ after[i].passed
                          /\ \A j \in WithId(before, after[i].id) :
                                ~before[j].passed}
        IN  /\ \A i \in 1..Len(after) :
                  \A j \in WithId(before, after[i].id) :
                      before[j].passed => after[i].passed
            /\ state.score = call.pre.score + Cardinality(turned)
            /\ updateScore(after, state.score) =
                  [score |-> state.score, obstacles |-> after]

\* A playing tick with elapsed time keeps an obstacle that was already
\* passed and counted; the score does not move.
C11_Witness ==
    /\ TickOn("playing")
    /\ call.deltaTime > 0
    /\ call.pre.score >= 1
    /\ state.score = call.pre.score
    /\ \E i \in 1..Len(state.obstacles) :
          /\ state.obstacles[i].passed
          /\ \E j \in WithId(call.pre.obstacles, state.obstacles[i].id) :
                call.pre.obstacles[j].passed
(***************************************************************************)
(* The collision functions on their own: the bird is placed at, one unit   *)
(* inside and one unit outside each playfield boundary and each edge of    *)
(* the gap; the obstacles are placed where the bird's horizontal extent    *)
(* touches, overlaps by one unit and misses by one unit each of their      *)
(* edges, and at the right edge of the playfield.                          *)
(***************************************************************************)
\* The longest obstacle collection the collision functions are applied to.
MaxCollisionObstacles == 2

Nudges == {-1, 0, 1}

CollisionGapY == (minGapY + maxGapY) \div 2

CollisionYs ==
    UNION {{topBoundary + birdRadius + d,
            bottomBoundary - birdRadius + d,
            CollisionGapY - obstacleGap \div 2 + birdRadius + d,
            CollisionGapY + obstacleGap \div 2 - birdRadius + d} : d \in Nudges}

CollisionBirds == [y : CollisionYs, velocity : {0, jumpVelocity}]

CollisionXs ==
    {width}
    \cup {birdStartX + birdRadius + d : d \in Nudges}
    \cup {birdStartX - birdRadius - obstacleWidth + d : d \in Nudges}

CollisionObstacles ==
    [id : {<<0, 0>>}, x : CollisionXs, gapY : {CollisionGapY}, passed : BOOLEAN]

\* The collection with the i-th obstacle given the identifier <<i, 0>>.
Tagged(obstacles) ==
    [i \in 1..Len(obstacles) |-> [obstacles[i] EXCEPT !.id = <<i, 0>>]]

CollisionCollections ==
    {Tagged(obstacles) :
        obstacles \in UNION {[1..n -> CollisionObstacles] :
                                n \in 0..MaxCollisionObstacles}}

CollisionInit ==
    /\ state \in {[createInitialGameState EXCEPT !.gameStatus = "playing",
                                                 !.bird = bird,
                                                 !.obstacles = obstacles] :
                     bird \in CollisionBirds, obstacles \in CollisionCollections}
    /\ now = 0
    /\ run = NoRun
    /\ refs = mountedRefs
    /\ call = NoCall

CheckObstacle(i) ==
    /\ call.op = "none"
    /\ i \in 1..Len(state.obstacles)
    /\ call' = [op |-> "checkBirdObstacleCollision", pre |-> state, index |-> i,
                result |-> checkBirdObstacleCollision(state.bird,
                                                      state.obstacles[i])]
    /\ UNCHANGED <<state, now, run, refs>>

CheckBoundary ==
    /\ call.op = "none"
    /\ call' = [op |-> "checkBirdBoundaryCollision", pre |-> state, index |-> 0,
                result |-> checkBirdBoundaryCollision(state.bird)]
    /\ UNCHANGED <<state, now, run, refs>>

CheckAll ==
    /\ call.op = "none"
    /\ call' = [op |-> "checkCollisions", pre |-> state, index |-> 0,
                result |-> checkCollisions(state.bird, state.obstacles)]
    /\ UNCHANGED <<state, now, run, refs>>

CollisionNext ==
    \/ \E i \in 1..MaxCollisionObstacles : CheckObstacle(i)
    \/ CheckBoundary
    \/ CheckAll

CollisionSpec == CollisionInit /\ [][CollisionNext]_vars

\* The bird's horizontal extent meets the obstacle's.
Aligned(obstacle) ==
    /\ birdStartX + birdRadius >= obstacle.x
    /\ birdStartX - birdRadius <= obstacle.x + obstacleWidth

\* The bird's vertical extent lies within the gap.
InsideGap(bird, obstacle) ==
    /\ bird.y - birdRadius >= obstacle.gapY - obstacleGap \div 2
    /\ bird.y + birdRadius <= obstacle.gapY + obstacleGap \div 2

\* C12: checkBirdObstacleCollision is true exactly when the bird is
\* horizontally aligned with the obstacle and not fully inside the gap;
\* nothing else (passed flag, id, velocity) enters the result.
C12_ObstacleCollision ==
    call.op = "checkBirdObstacleCollision" =>
        LET obstacle == call.pre.obstacles[call.index]
        IN  call.result =
                (Aligned(obstacle) /\ ~InsideGap(call.pre.bird, obstacle))

\* A moving bird is tested against an obstacle that is marked passed, that
\* it is aligned with and whose gap it is not inside.
C12_Witness ==
    /\ call.op = "checkBirdObstacleCollision"
    /\ call.pre.obstacles[call.index].passed
    /\ call.pre.bird.velocity # 0
    /\ Aligned(call.pre.obstacles[call.index])
    /\ ~InsideGap(call.pre.bird, call.pre.obstacles[call.index])
    /\ call.result

\* C13: a bird whose circle touches the top or the bottom edge of the gap
\* exactly, the other side being inside, is safe; a bird whose horizontal
\* extent only touches an edge of the obstacle is aligned, so it collides
\* unless it is fully inside the gap.
C13_EdgeTouching ==
    call.op = "checkBirdObstacleCollision" =>
        LET obstacle == call.pre.obstacles[call.index]
            y == call.pre.bird.y
            gapTop == obstacle.gapY - obstacleGap \div 2
            gapBottom == obstacle.gapY + obstacleGap \div 2
            touchesSide ==
                \/ birdStartX + birdRadius = obstacle.x
                \/ birdStartX - birdRadius = obstacle.x + obstacleWidth
        IN  /\ (Aligned(obstacle) /\ y - birdRadius = gapTop
                /\ y + birdRadius <= gapBottom) => ~call.result
            /\ (Aligned(obstacle) /\ y + birdRadius = gapBottom
                /\ y - birdRadius >= gapTop) => ~call.result
            /\ (touchesSide /\ ~InsideGap(call.pre.bird, obstacle)) =>
                   call.result
            /\ (touchesSide /\ InsideGap(call.pre.bird, obstacle)) =>
                   ~call.result

\* The bird touches the obstacle's left edge horizontally and the gap's top
\* edge vertically: aligned, contained, safe.
C13_Witness ==
    /\ call.op = "checkBirdObstacleCollision"
    /\ birdStartX + birdRadius = call.pre.obstacles[call.index].x
    /\ call.pre.bird.y - birdRadius =
          call.pre.obstacles[call.index].gapY - obstacleGap \div 2
    /\ ~call.result

\* C14: checkBirdBoundaryCollision is true exactly when
\* y - radius <= topBoundary or y + radius >= bottomBoundary; touching a
\* boundary exactly is a collision, one unit further inside is not.
C14_BoundaryCollision ==
    call.op = "checkBirdBoundaryCollision" =>
        LET y == call.pre.bird.y
        IN  /\ call.result =
                  (y - birdRadius <= topBoundary
                   \/ y + birdRadius >= bottomBoundary)
            /\ y \in {topBoundary + birdRadius, bottomBoundary - birdRadius}
                  => call.result
            /\ y \in {topBoundary + birdRadius + 1,
                      bottomBoundary - birdRadius - 1} => ~call.result

\* The bird touches the bottom boundary exactly and the check reports it.
C14_Witness ==
    /\ call.op = "checkBirdBoundaryCollision"
    /\ call.pre.bird.y + birdRadius = bottomBoundary
    /\ call.result

\* C15: checkCollisions equals the boundary check OR the obstacle check of
\* some obstacle of the collection, the empty collection included.
C15_AnyCollision ==
    call.op = "checkCollisions" =>
        call.result =
            (\/ checkBirdBoundaryCollision(call.pre.bird)
             \/ \E i \in 1..Len(call.pre.obstacles) :
                   checkBirdObstacleCollision(call.pre.bird,
                                              call.pre.obstacles[i]))

\* The bird is clear of the boundaries and of the first obstacle and
\* collides with the second: the check reports it.
C15_Witness ==
    /\ call.op = "checkCollisions"
    /\ Len(call.pre.obstacles) = 2
    /\ ~checkBirdBoundaryCollision(call.pre.bird)
    /\ ~checkBirdObstacleCollision(call.pre.bird, call.pre.obstacles[1])
    /\ checkBirdObstacleCollision(call.pre.bird, call.pre.obstacles[2])
    /\ call.result
(***************************************************************************)
(* The obstacle functions on their own: the collections hold obstacles at, *)
(* one unit left of and one unit right of the pruning position, at the     *)
(* left edge and at the right edge of the playfield.                       *)
(***************************************************************************)
ObstacleXs == {-obstacleWidth + d : d \in Nudges} \cup {0, width}

ObstacleSamples ==
    [id : {<<0, 0>>}, x : ObstacleXs, gapY : {minGapY}, passed : BOOLEAN]

ObstacleCollections ==
    {Tagged(obstacles) :
        obstacles \in UNION {[1..n -> ObstacleSamples] : n \in 0..MaxObstacles}}

\* deltaTime values the functions are applied with on their own.
ElapsedTimes == {0, 16, 250}

\* currentTime values generateObstacle is applied with.
GenerationTimes == {0, obstacleInterval, MaxTime}

ObstacleInit ==
    /\ state \in {[createInitialGameState EXCEPT !.gameStatus = "playing",
                                                 !.obstacles = obstacles] :
                     obstacles \in ObstacleCollections}
    /\ now = 0
    /\ run = NoRun
    /\ refs = mountedRefs
    /\ call = NoCall

Advance(deltaTime) ==
    /\ call.op = "none"
    /\ state' = [state EXCEPT
                    !.obstacles = updateObstacles(state.obstacles, deltaTime)]
    /\ UNCHANGED <<now, run, refs>>
    /\ call' = [op |-> "updateObstacles", pre |-> state,
                deltaTime |-> deltaTime]

Prune ==
    /\ call.op = "none"
    /\ state' = [state EXCEPT
                    !.obstacles = removeOffscreenObstacles(state.obstacles)]
    /\ UNCHANGED <<now, run, refs>>
    /\ call' = [op |-> "removeOffscreenObstacles", pre |-> state]

Generate(currentTime, random1, random2) ==
    /\ call.op = "none"
    /\ call' = [op |-> "generateObstacle", pre |-> state,
                currentTime |-> currentTime, random1 |-> random1,
                result |-> generateObstacle(currentTime, random1, random2)]
    /\ UNCHANGED <<state, now, run, refs>>

ObstacleNext ==
    \/ \E deltaTime \in ElapsedTimes : Advance(deltaTime)
    \/ Prune
    \/ \E currentTime \in GenerationTimes, random1 \in GapDraws,
          random2 \in IdDraws : Generate(currentTime, random1, random2)

ObstacleSpec == ObstacleInit /\ [][ObstacleNext]_vars

\* The indices of the obstacles that have not fully left the playfield.
Retained(obstacles) ==
    {i \in 1..Len(obstacles) : obstacles[i].x > -obstacleWidth}

\* The k-th smallest index of a set of indices.
Kth(indices, k) ==
    CHOOSE i \in indices : Cardinality({j \in indices : j < i}) = k - 1

\* C16: removeOffscreenObstacles returns exactly the obstacles with
\* x > -obstacleWidth, in their original order and unmodified; an obstacle
\* with x = -obstacleWidth is removed.
C16_Prune ==
    call.op = "removeOffscreenObstacles" =>
        LET before == call.pre.obstacles
            after == state.obstacles
            retained == Retained(before)
        IN  /\ Len(after) = Cardinality(retained)
            /\ \A k \in 1..Len(after) : after[k] = before[Kth(retained, k)]
            /\ \A k \in 1..Len(after) : after[k].x # -obstacleWidth

\* Three obstacles are pruned, the middle one exactly one width left of the
\* edge: the first and the last remain.
C16_Witness ==
    /\ call.op = "removeOffscreenObstacles"
    /\ Len(call.pre.obstacles) = 3
    /\ call.pre.obstacles[1].x > -obstacleWidth
    /\ call.pre.obstacles[2].x = -obstacleWidth
    /\ call.pre.obstacles[3].x > -obstacleWidth
    /\ Len(state.obstacles) = 2

\* C17: updateObstacles returns a collection of the same length and order
\* in which every x is the old x minus obstacleSpeed * deltaTime and id,
\* gapY and passed are unchanged.
C17_Advance ==
    call.op = "updateObstacles" =>
        LET before == call.pre.obstacles
            after == state.obstacles
        IN  /\ Len(after) = Len(before)
            /\ \A i \in 1..Len(before) :
                  /\ after[i].x = before[i].x - obstacleSpeed * call.deltaTime
                  /\ after[i].id = before[i].id
                  /\ after[i].gapY = before[i].gapY
                  /\ after[i].passed = before[i].passed

\* Three obstacles, passed and unpassed, are moved with elapsed time.
C17_Witness ==
    /\ call.op = "updateObstacles"
    /\ call.deltaTime > 0
    /\ Len(call.pre.obstacles) = 3
    /\ call.pre.obstacles[1].passed
    /\ ~call.pre.obstacles[2].passed
    /\ state.obstacles[1].x < call.pre.obstacles[1].x

\* C18: generateObstacle returns, for every currentTime and random draw, an
\* obstacle with x = width, passed = false and minGapY <= gapY <= maxGapY.
C18_Generate ==
    call.op = "generateObstacle" =>
        /\ call.result.x = width
        /\ call.result.passed = FALSE
        /\ minGapY <= call.result.gapY
        /\ call.result.gapY <= maxGapY

\* An obstacle is generated at a positive currentTime with the smallest
\* random draw: the gap is at minGapY.
C18_Witness ==
    /\ call.op = "generateObstacle"
    /\ call.currentTime > 0
    /\ call.random1 = 0
    /\ call.result.gapY = minGapY

(***************************************************************************)
(* The physics functions on their own, on birds at and next to the top and *)
(* the bottom of the playfield and in its middle, rising, at rest and      *)
(* falling.                                                                *)
(***************************************************************************)
PhysicsYs ==
    {topBoundary, topBoundary + birdRadius, birdStartY,
     bottomBoundary - birdRadius, bottomBoundary}

PhysicsVelocities ==
    {2 * jumpVelocity, jumpVelocity, 0, -jumpVelocity, -2 * jumpVelocity}

PhysicsInit ==
    /\ state \in {[createInitialGameState EXCEPT !.gameStatus = "playing",
                                                 !.bird = bird] :
                     bird \in [y : PhysicsYs, velocity : PhysicsVelocities]}
    /\ now = 0
    /\ run = NoRun
    /\ refs = mountedRefs
    /\ call = NoCall

\* applyJump may be applied again to its own result.
ApplyJump ==
    /\ call.op \in {"none", "applyJump"}
    /\ state' = [state EXCEPT !.bird = applyJump(state.bird)]
    /\ UNCHANGED <<now, run, refs>>
    /\ call' = [op |-> "applyJump", pre |-> state]

ApplyGravity(deltaTime) ==
    /\ call.op = "none"
    /\ state' = [state EXCEPT !.bird = applyGravity(state.bird, deltaTime)]
    /\ UNCHANGED <<now, run, refs>>
    /\ call' = [op |-> "applyGravity", pre |-> state, deltaTime |-> deltaTime]

UpdateBirdPosition(deltaTime) ==
    /\ call.op = "none"
    /\ state' = [state EXCEPT
                   !.bird = updateBirdPosition(state.bird, deltaTime)]
    /\ UNCHANGED <<now, run, refs>>
    /\ call' = [op |-> "updateBirdPosition", pre |-> state,
                deltaTime |-> deltaTime]

PhysicsNext ==
    \/ ApplyJump
    \/ \E deltaTime \in ElapsedTimes : ApplyGravity(deltaTime)
    \/ \E deltaTime \in ElapsedTimes : UpdateBirdPosition(deltaTime)

PhysicsSpec == PhysicsInit /\ [][PhysicsNext]_vars

\* C19: applyJump sets the velocity to jumpVelocity whatever it was, leaves
\* the position unchanged, and applied twice gives what it gives once.
C19_ApplyJump ==
    call.op = "applyJump" =>
        /\ state.bird.velocity = jumpVelocity
        /\ state.bird.y = call.pre.bird.y
        /\ call.pre.bird.velocity = jumpVelocity => state.bird = call.pre.bird
        /\ applyJump(state.bird) = state.bird

\* applyJump is applied to a falling bird.
C19_Witness ==
    /\ call.op = "applyJump"
    /\ call.pre.bird.velocity > 0
    /\ call.pre.bird.y = birdStartY

\* C20: applyGravity returns velocity = old velocity + gravity * deltaTime
\* and leaves the position unchanged, for every bird and deltaTime >= 0.
C20_ApplyGravity ==
    call.op = "applyGravity" =>
        /\ state.bird.velocity =
              call.pre.bird.velocity + gravity * call.deltaTime
        /\ state.bird.y = call.pre.bird.y

\* applyGravity is applied to a rising bird with elapsed time.
C20_Witness ==
    /\ call.op = "applyGravity"
    /\ call.deltaTime > 0
    /\ call.pre.bird.velocity < 0
    /\ state.bird.velocity > call.pre.bird.velocity

\* C21: updateBirdPosition returns y = old y + velocity * deltaTime and
\* leaves the velocity unchanged, for every bird and deltaTime >= 0.
C21_UpdateBirdPosition ==
    call.op = "updateBirdPosition" =>
        /\ state.bird.y =
              call.pre.bird.y + call.pre.bird.velocity * call.deltaTime
        /\ state.bird.velocity = call.pre.bird.velocity

\* updateBirdPosition moves a rising bird up over an elapsed time.
C21_Witness ==
    /\ call.op = "updateBirdPosition"
    /\ call.deltaTime > 0
    /\ call.pre.bird.velocity < 0
    /\ state.bird.y < call.pre.bird.y

Crossed ==
    {j \in 1..Len(call.pre.obstacles) :
        /\ call.pre.obstacles[j].x + obstacleWidth >= birdStartX
        /\ call.pre.obstacles[j].x - obstacleSpeed * call.deltaTime
              + obstacleWidth < birdStartX}

\* C23: whenever a tick moves an obstacle's trailing edge from at or right
\* of birdStartX to left of it and the run goes on, the score goes up by
\* one for that obstacle, and no obstacle leaves the collection uncounted.
C23_PassedIsCounted ==
    (TickOn("playing") /\ state.gameStatus = "playing") =>
        /\ state.score = call.pre.score + Cardinality(Crossed)
        /\ \A j \in 1..Len(call.pre.obstacles) :
              WithId(state.obstacles, call.pre.obstacles[j].id) = {}
                  => call.pre.obstacles[j].passed

\* C24: in the running application a click or a press of any key makes the
\* bird jump: from ready it starts the run with the jump impulse applied,
\* while playing the jump is requested for the following tick, and that
\* tick applies the impulse.
C24_AnyInputJumps ==
    /\ (call.op \in {"keydown", "click"} /\ call.pre.gameStatus = "ready") =>
          /\ state.gameStatus = "playing"
          /\ state.bird.velocity = jumpVelocity
    /\ (call.op \in {"keydown", "click"} /\ call.pre.gameStatus = "playing") =>
          refs.jumpPressedRef
    /\ (call.op = "frame" /\ call.jumpPressed) =>
          state.bird.velocity = jumpVelocity + gravity * call.deltaTime

\* C25: on a playing tick the position is integrated with the velocity
\* the tick has just computed: with v' the velocity after the impulse (if
\* requested) and gravity, the returned y is y + v' * deltaTime.
C25_IntegratesNewVelocity ==
    TickOn("playing") =>
        /\ state.bird.velocity =
              (IF call.jumpPressed THEN jumpVelocity
                                   ELSE call.pre.bird.velocity)
              + gravity * call.deltaTime
        /\ state.bird.y =
              call.pre.bird.y + state.bird.velocity * call.deltaTime

\* A playing tick with elapsed time turns a rising bird into a falling one
\* and moves it down: the new velocity was used, not the old one.
C25_Witness ==
    /\ TickOn("playing")
    /\ call.deltaTime > 0
    /\ ~call.jumpPressed
    /\ call.pre.bird.velocity < 0
    /\ state.bird.velocity > 0
    /\ state.bird.y > call.pre.bird.y

\* C26: the obstacle a playing tick generates is neither advanced nor
\* pruned in that tick: it is the last element of the returned collection,
\* with x = width and passed = false, while the obstacles before it are
\* those the tick was given, advanced by obstacleSpeed * deltaTime, in
\* order, without the ones that left the playfield.
C26_GeneratedLast ==
    (TickOn("playing") /\ Due) =>
        LET kept == Kept(call.pre.obstacles, call.deltaTime)
            n    == Len(state.obstacles)
        IN  /\ n = Cardinality(kept) + 1
            /\ state.obstacles[n].x = width
            /\ state.obstacles[n].passed = FALSE
            /\ state.obstacles[n].id[1] = call.currentTime
            /\ \A k \in 1..(n - 1) :
                  LET old == call.pre.obstacles[Kth(kept, k)]
                  IN  /\ state.obstacles[k].id = old.id
                      /\ state.obstacles[k].x =
                            old.x - obstacleSpeed * call.deltaTime

\* A playing tick with elapsed time generates an obstacle behind one that
\* it advanced.
C26_Witness ==
    /\ TickOn("playing")
    /\ Due
    /\ call.deltaTime > 0
    /\ Len(call.pre.obstacles) > 0
    /\ Len(state.obstacles) = Len(call.pre.obstacles) + 1
    /\ state.obstacles[Len(state.obstacles)].x = width

\* C27: in every reachable state every obstacle of the collection has
\* -obstacleWidth < x <= width.
C27_ObstaclesOnPlayfield ==
    \A i \in 1..Len(state.obstacles) :
        /\ state.obstacles[i].x > -obstacleWidth
        /\ state.obstacles[i].x <= width

\* A playing tick has advanced an obstacle past the left edge and removed
\* it, and kept another.
C27_Witness ==
    /\ TickOn("playing")
    /\ \E j \in 1..Len(call.pre.obstacles) :
          call.pre.obstacles[j].x - obstacleSpeed * call.deltaTime
              <= -obstacleWidth
    /\ Len(state.obstacles) > 0
    /\ \A i \in 1..Len(state.obstacles) :
          state.obstacles[i].x > -obstacleWidth

\* C28: in every reachable state the status is "gameOver" exactly when
\* checkCollisions holds of the state's bird and obstacles.
C28_GameOverIffCollision ==
    (state.gameStatus = "gameOver")
        = checkCollisions(state.bird, state.obstacles)

\* A run has ended on an obstacle, the bird being inside the playfield.
C28_Witness ==
    /\ state.gameStatus = "gameOver"
    /\ ~checkBirdBoundaryCollision(state.bird)
    /\ checkCollisions(state.bird, state.obstacles)

\* The obstacles given to the last tick that were not yet passed.
Unpassed ==
    {j \in 1..Len(call.pre.obstacles) : ~call.pre.obstacles[j].passed}

\* C29: within a run the score never decreases, a tick increases it by at
\* most the number of obstacles that were unpassed before the tick, and it
\* never exceeds the number of obstacles generated so far in the run.
C29_ScoreBounds ==
    /\ call.op = "tick" =>
          /\ state.score >= call.pre.score
          /\ state.score - call.pre.score <= Cardinality(Unpassed)
    /\ state.score <= Len(run.generated)

\* A tick has counted the first obstacle of a run in which a second one
\* has been generated.
C29_Witness ==
    /\ TickOn("playing")
    /\ state.score = call.pre.score + 1
    /\ Cardinality(Unpassed) = 2
    /\ Len(run.generated) = 2

\* C30: while an obstacle stays in the collection its id and gapY are the
\* values it was created with and its x never increases; a tick changes
\* only its x, downwards, and its passed flag, from false to true.  The
\* obstacles a playing tick keeps are matched in order with those it
\* returns; any other tick returns the collection it was given.
C30_ObstacleFrame ==
    /\ TickOn("playing") =>
          LET kept == Kept(call.pre.obstacles, call.deltaTime)
          IN  /\ Len(state.obstacles) >= Cardinality(kept)
              /\ \A k \in 1..Cardinality(kept) :
                    LET old == call.pre.obstacles[Kth(kept, k)]
                        new == state.obstacles[k]
                    IN  /\ new.id = old.id
                        /\ new.gapY = old.gapY
                        /\ new.x <= old.x
                        /\ old.passed => new.passed
    /\ (call.op = "tick" /\ call.pre.gameStatus # "playing") =>
          state.obstacles = call.pre.obstacles

\* A playing tick with elapsed time has kept an obstacle that was already
\* passed, has moved it left, and has kept another, unpassed one.
C30_Witness ==
    /\ TickOn("playing")
    /\ call.deltaTime > 0
    /\ Len(call.pre.obstacles) = 2
    /\ Len(state.obstacles) = 2
    /\ call.pre.obstacles[1].passed
    /\ state.obstacles[1].passed
    /\ state.obstacles[1].x < call.pre.obstacles[1].x
    /\ ~state.obstacles[2].passed

\* C31: in every reachable state the collection is in creation order and
\* that order is the order by horizontal position: x is non-decreasing
\* along the collection, the newest obstacle is last, and all passed
\* obstacles come before all unpassed ones.
C31_CreationOrder ==
    \A i, j \in 1..Len(state.obstacles) :
        i < j =>
            /\ state.obstacles[i].x <= state.obstacles[j].x
            /\ state.obstacles[i].id[1] <= state.obstacles[j].id[1]
            /\ state.obstacles[j].passed => state.obstacles[i].passed

\* Two obstacles are in the collection, the older one further left and
\* passed, the newer one unpassed.
C31_Witness ==
    /\ Len(state.obstacles) = 2
    /\ state.obstacles[1].x < state.obstacles[2].x
    /\ state.obstacles[1].id[1] < state.obstacles[2].id[1]
    /\ state.obstacles[1].passed
    /\ ~state.obstacles[2].passed

\* C32: in a run driven with non-decreasing currentTime, the currentTime
\* values of two ticks that generate differ by at least obstacleInterval,
\* the first obstacle is generated no earlier than obstacleInterval after
\* the currentTime of the ready -> playing tick, and lastObstacleTime
\* never decreases and never exceeds the latest currentTime supplied.
C32_GenerationTimes ==
    /\ \A k \in 1..(Len(run.generated) - 1) :
          run.generated[k + 1][1] - run.generated[k][1] >= obstacleInterval
    /\ Len(run.generated) > 0 =>
          /\ run.started >= 0
          /\ run.generated[1][1] >= run.started + obstacleInterval
    /\ call.op = "tick" =>
          state.lastObstacleTime >= call.pre.lastObstacleTime
    /\ state.lastObstacleTime <= now

\* A run that started after time 0 has generated two obstacles.
C32_Witness ==
    /\ run.started > 0
    /\ Len(run.generated) = 2
    /\ state.lastObstacleTime = run.generated[2][1]

\* C33: the ids of all obstacles generated in a run, live or pruned, are
\* pairwise distinct.
C33_DistinctIds ==
    \A i, j \in 1..Len(run.generated) :
        i # j => run.generated[i] # run.generated[j]

\* Two obstacles of a run were given the same random component, and the
\* first of them has been pruned.
C33_Witness ==
    /\ Len(run.generated) = 2
    /\ run.generated[1][2] = run.generated[2][2]
    /\ Len(state.obstacles) = 1

\* C34: jump requests do not accumulate: a playing tick with a jump
\* request leaves the velocity at jumpVelocity + gravity * deltaTime
\* whatever it was, and in every reachable state the velocity is 0 (ready)
\* or at least jumpVelocity.
C34_NoStacking ==
    /\ (TickOn("playing") /\ call.jumpPressed) =>
          state.bird.velocity = jumpVelocity + gravity * call.deltaTime
    /\ state.gameStatus = "ready" => state.bird.velocity = 0
    /\ state.gameStatus # "ready" => state.bird.velocity >= jumpVelocity

\* A jump is requested on a playing tick while the bird still rises from
\* the jump before.
C34_Witness ==
    /\ TickOn("playing")
    /\ call.jumpPressed
    /\ call.pre.bird.velocity < 0
    /\ call.deltaTime > 0
    /\ state.bird.velocity = jumpVelocity + gravity * call.deltaTime

\* C35: on a reachable playing state a tick with deltaTime = 0, no jump
\* request and no obstacle due returns a state equal to the one given.
C35_ZeroTick ==
    (/\ TickOn("playing")
     /\ call.deltaTime = 0
     /\ ~call.jumpPressed
     /\ ~Due) => state = call.pre

\* Such a tick is made on a state with a passed and an unpassed obstacle
\* and a moving bird.
C35_Witness ==
    /\ TickOn("playing")
    /\ call.deltaTime = 0
    /\ ~call.jumpPressed
    /\ ~Due
    /\ call.pre.bird.velocity # 0
    /\ Len(call.pre.obstacles) = 2
    /\ call.pre.obstacles[1].passed
    /\ state = call.pre

\* C36: every run ends if the player stops jumping: once the ticks have
\* jumpPressed = false and a deltaTime bounded below by a positive
\* constant, the status eventually becomes "gameOver".
C36_RunEnds == (call.op = "fall") ~> (state.gameStatus = "gameOver")

\* A fall that began in a playing state has ended the run at the bottom of
\* the playfield.
C36_Witness ==
    /\ call.op = "fall"
    /\ call.pre.gameStatus = "playing"
    /\ state.gameStatus = "gameOver"
    /\ state.bird.y + birdRadius >= bottomBoundary

\* C37: in the driver the frame callback ticks only while gameStatusRef is
\* "playing", and a frame that runs after the stored state has become
\* gameOver leaves it unchanged: between the tick that produced gameOver
\* and the next restart, no frame, input or effect changes the stored
\* state.
C37_StoredStateFrozen ==
    /\ call.op = "frame" => (call.ticked = (call.seen = "playing"))
    /\ (/\ call.op \in {"frame", "keydown", "click", "effects"}
        /\ call.pre.gameStatus = "gameOver") => state = call.pre

\* A frame has run on a finished state while gameStatusRef still said
\* "playing", with a jump requested in between: it ticked and changed
\* nothing.
C37_Witness ==
    /\ call.op = "frame"
    /\ call.pre.gameStatus = "gameOver"
    /\ call.seen = "playing"
    /\ call.ticked
    /\ call.jumpPressed
    /\ state = call.pre

\* C38: in the driver a space-bar keydown or a click received while the
\* game is playing sets the jump flag; a frame ticks with jumpPressed =
\* true exactly when such an input was received since the frame before,
\* however many there were, and leaves the flag false.
C38_OneImpulsePerFrame ==
    /\ (/\ call.op \in {"keydown", "click"}
        /\ call.code # "Enter"
        /\ call.pre.gameStatus = "playing") => refs.jumpPressedRef
    /\ call.op = "frame" =>
          /\ call.ticked
          /\ call.jumpPressed = (call.presses > 0)
          /\ ~refs.jumpPressedRef
          /\ (call.pre.gameStatus = "playing" /\ call.jumpPressed) =>
                state.bird.velocity = jumpVelocity + gravity * call.deltaTime

\* Two or more inputs were received between two frames of a run: the
\* second frame ticked with one jump request.
C38_Witness ==
    /\ call.op = "frame"
    /\ call.pre.gameStatus = "playing"
    /\ call.presses = 2
    /\ call.jumpPressed
    /\ call.deltaTime > 0
    /\ state.bird.velocity = jumpVelocity + gravity * call.deltaTime

\* C39: in the running application no obstacle is generated until at least
\* obstacleInterval milliseconds of play have elapsed since the start of
\* the run, also for a run started after a restart.  The run started no
\* earlier than the latest frame before it (run.startedAt), so the time
\* played when the first obstacle is generated is at most the generating
\* frame's timestamp minus run.startedAt.
C39_NoEarlyObstacle ==
    Len(run.generated) > 0 =>
        run.generated[1][1] - run.startedAt >= obstacleInterval

\* C40: every deltaTime the game loop passes to updateGameState is positive
\* and below 100 ms, on the first frame of a run and after a long pause
\* between two frames as well.
C40_DeltaTimeValidated ==
    (call.op = "frame" /\ call.ticked) =>
        /\ call.deltaTime > 0
        /\ call.deltaTime < 100

=============================================================================
